---- MODULE Spec2Model ----
(***************************************************************************)
(* Model of clib-install (src/src/clib-install.c): the driver that         *)
(* installs explicit targets or the root project's own dependencies, and   *)
(* records installed packages in the project manifest.                     *)
(*                                                                         *)
(* A slug is a sequence of one-character strings, so that the tests on     *)
(* slug[0], slug[1] and strlen(slug) are modelled as the code makes them.  *)
(* A package identifier is the pair <<author, name>>.                      *)
(***************************************************************************)
EXTENDS Integers, Sequences, FiniteSets, TLC

\* Largest number of explicit targets on the command line.
MaxTargets == 2

----------------------------------------------------------------------------
(* The file system and the slugs of the command line *)

NULL == "NULL"
NoId == <<>>

\* One slug of each kind install_package tells apart after its tests: the
\* project itself, an existing directory (no package of the registry), a
\* package of the registry.
Slugs == { <<".">>, <<"d">>, <<"p">> }

\* The other spellings: "./", a regular file, a symlink, and the package
\* with its owner.
OtherSlugs == { <<".", "/">>, <<".", "f">>, <<"l">>, <<"c", "/", "p">> }

AllSlugs == Slugs \cup OtherSlugs

\* st_mode & S_IFMT of a path, "none" when the path does not exist.
fs_stat(slug) ==
  CASE slug = <<".", "f">> -> "S_IFREG"
    [] slug = <<"l">>      -> "S_IFLNK"
    [] slug \in { <<".">>, <<".", "/">>, <<"d">> } -> "S_IFDIR"
    [] OTHER -> "none"

\* fs_exists returns 0 when the path exists.
fs_exists(slug) == IF fs_stat(slug) # "none" THEN 0 ELSE -1

\* The two early returns of install_package through install_local_packages.
IsLocalPath_noLink(slug) ==
  \/ /\ slug[1] = "."
     /\ (Len(slug) = 1 \/ (Len(slug) = 2 /\ slug[2] = "/"))
  \/ /\ 0 = fs_exists(slug)
     /\ fs_stat(slug) \in {"S_IFREG", "S_IFDIR"}

IsLocalPath(slug) ==
  \/ /\ slug[1] = "."
     /\ (Len(slug) = 1 \/ (Len(slug) = 2 /\ slug[2] = "/"))
  \/ /\ 0 = fs_exists(slug)
     /\ fs_stat(slug) \in {"S_IFREG", "S_IFLNK"}

----------------------------------------------------------------------------
(* Slug parsing and the registry *)

DEFAULT_REPO_OWNER == <<"c">>

RECURSIVE SlashAt(_, _)
\* Index of the first "/" of slug at or after k, 0 when there is none.
SlashAt(slug, k) ==
  IF k > Len(slug) THEN 0
  ELSE IF slug[k] = "/" THEN k ELSE SlashAt(slug, k + 1)

clib_package_parse_author(slug) ==
  IF SlashAt(slug, 1) = 0 THEN DEFAULT_REPO_OWNER
  ELSE SubSeq(slug, 1, SlashAt(slug, 1) - 1)

clib_package_parse_name(slug) ==
  IF SlashAt(slug, 1) = 0 THEN slug
  ELSE SubSeq(slug, SlashAt(slug, 1) + 1, Len(slug))

clib_package_get_id(author, name) == <<author, name>>

PackageId(slug) ==
  clib_package_get_id(clib_package_parse_author(slug),
                      clib_package_parse_name(slug))

P == <<<<"c">>, <<"p">>>>
Q == <<<<"c">>, <<"q">>>>
T == <<<<"c">>, <<"t">>>>
X == <<<<"c">>, <<"x">>>>
Y == <<<<"c">>, <<"y">>>>

\* The packages the configured registries list.
Registry == {P, Q, T}

registry_manager_find_package(id) == id \in Registry

\* The manifests of the registry's packages: p and q depend on each other,
\* p has the development dependency t.
Dependencies(id) ==
  CASE id = P -> <<Q>>
    [] id = Q -> <<P>>
    [] OTHER  -> <<>>

DevelopmentDependencies(id) ==
  CASE id = P -> <<T>>
    [] OTHER  -> <<>>

Version(id) ==
  CASE id = P -> "2.0.0"
    [] id = Q -> "1.1.0"
    [] OTHER  -> "0.3.0"

\* The root project's own manifest, when there is one.
RootDependencies == <<Q>>
RootDevelopment == <<T>>

----------------------------------------------------------------------------
(* The manifest files and write_dependency *)

\* The candidate manifest file names, in the order write_dependency tries them.
manifest_names == <<"clib.json", "package.json">>

Sections == {"dependencies", "development"}

AbsentSection == [present |-> FALSE, entries |-> {}]

\* json_value_init_object: a fresh, empty object.
json_value_init_object == [present |-> TRUE, entries |-> {}]

\* json_object_set_string(object, name, string): set or overwrite one entry.
json_object_set_string(entries, name, string) ==
  {e \in entries : e[1] # name} \cup {<<name, string>>}

\* A file json_parse_file cannot read or parse.
NoManifest ==
  [parses |-> FALSE, writable |-> TRUE, dependencies |-> AbsentSection,
   development |-> AbsentSection, other |-> ""]

ManifestX ==
  [parses |-> TRUE, writable |-> TRUE,
   dependencies |-> [present |-> TRUE, entries |-> {<<X, "1.0.0">>}],
   development |-> AbsentSection, other |-> "name: root"]

ManifestPY ==
  [parses |-> TRUE, writable |-> TRUE,
   dependencies |-> [present |-> TRUE,
                     entries |-> {<<X, "1.0.0">>, <<P, "0.1.0">>}],
   development |-> [present |-> TRUE, entries |-> {<<Y, "0.0.1">>}],
   other |-> "name: root; prefix"]

ManifestEmpty ==
  [parses |-> TRUE, writable |-> TRUE, dependencies |-> AbsentSection,
   development |-> AbsentSection, other |-> ""]

\* The same contents in a file that cannot be opened for writing.
ReadOnly(file) == [file EXCEPT !.writable = FALSE]

ManifestFiles ==
  {NoManifest, ManifestX, ManifestPY, ManifestEmpty,
   ReadOnly(ManifestX), ReadOnly(ManifestPY)}

ManifestNames == {manifest_names[k] : k \in 1..Len(manifest_names)}

\* The package descriptor fields the writer reads: pkg->repo, pkg->version.
Package(id) == [repo |-> id, version |-> Version(id)]

\* write_dependency_with_package_name on the contents `file` of one
\* candidate. json_serialize_to_file_pretty fails when the file cannot be
\* opened for writing, and then leaves it as it was.
\* Mutant: the section is replaced by one holding the new entry alone.
WriteDependencyWithPackageName_replace(file, prefix, p) ==
  IF ~file.parses THEN [file |-> file, rc |-> 1]
  ELSE LET newSection == [present |-> TRUE,
                          entries |-> {<<p.repo, p.version>>}]
           json == [file EXCEPT ![prefix] = newSection]
       IN  IF ~file.writable THEN [file |-> file, rc |-> -1]
           ELSE [file |-> json, rc |-> 0]

WriteDependencyWithPackageName(file, prefix, p) ==
  IF ~file.parses THEN [file |-> file, rc |-> 1]
  ELSE LET depSection == IF file[prefix].present THEN file[prefix]
                         ELSE json_value_init_object
           newSection == [present |-> TRUE,
                          entries |-> json_object_set_string(
                                        depSection.entries, p.repo, p.version)]
           json == [file EXCEPT ![prefix] = newSection]
       IN  IF ~file.writable THEN [file |-> file, rc |-> -1]
           ELSE [file |-> json, rc |-> 0]

\* The condition of the do-while of write_dependency, after candidate k.
\* Mutant: the loop goes on after a successful write.
TryNextManifest_always(k, r) == k + 1 <= Len(manifest_names)

TryNextManifest(k, r) == k + 1 <= Len(manifest_names) /\ 0 # r

RECURSIVE WriteFrom(_, _, _, _, _)
\* The do-while of write_dependency from candidate k on; rcs collects the
\* result of every candidate tried so far.
WriteFrom(d, prefix, p, k, rcs) ==
  LET name == manifest_names[k]
      r == WriteDependencyWithPackageName(d[name], prefix, p)
      d2 == [d EXCEPT ![name] = r.file]
  IN  IF TryNextManifest(k, r.rc)
      THEN WriteFrom(d2, prefix, p, k + 1, Append(rcs, r.rc))
      ELSE [disk |-> d2, rc |-> r.rc, rcs |-> Append(rcs, r.rc)]

write_dependency(d, prefix, p) == WriteFrom(d, prefix, p, 1, <<>>)

NoWrite ==
  [before |-> [n \in ManifestNames |-> NoManifest],
   after |-> [n \in ManifestNames |-> NoManifest],
   prefix |-> "", p |-> Package(NoId), rc |-> 0, rcs |-> <<>>]

\* The record of one write_dependency call.
WriteRecord(d, prefix, p) ==
  LET w == write_dependency(d, prefix, p)
  IN  [before |-> d, after |-> w.disk, prefix |-> prefix, p |-> p,
       rc |-> w.rc, rcs |-> w.rcs]

save_dependency(d, p) == WriteRecord(d, "dependencies", p)

save_dev_dependency(d, p) == WriteRecord(d, "development", p)

----------------------------------------------------------------------------
(* The state of one run of clib-install *)

VARIABLES
  argv,                \* program.argv: the explicit targets
  opts,                \* struct options
  root_package,        \* the root project's manifest, loaded by main
  pc,                  \* the position of the run
  i,                   \* the loop index of install_packages (from 1)
  path,                \* "top", "local" or "registry": how the install was entered
  cont,                \* where the run goes on when the installer returns
  stack,               \* the installer's recursion: one frame per package
  rc,                  \* the last return code
  code,                \* the exit code of main
  visited,             \* the run's visited set
  cache,               \* the identifiers whose manifest is in the cache
  disk,                \* the contents of the candidate manifest files
  env_PREFIX,          \* the environment variable PREFIX
  package_opts_prefix, \* package_opts.prefix
  pkg,                 \* the descriptor install_package holds
  log,                 \* what the run has done so far
  last_write           \* the last write_dependency call

vars ==
  <<argv, opts, root_package, pc, i, path, cont, stack, rc, code, visited,
    cache, disk, env_PREFIX, package_opts_prefix, pkg, log, last_write>>

Options ==
  [dev : BOOLEAN, save : BOOLEAN, savedev : BOOLEAN, force : BOOLEAN,
   skip_cache : BOOLEAN]

RECURSIVE SeqsUpTo(_, _)
\* The sequences over S of length at most n.
SeqsUpTo(S, n) ==
  IF n = 0 THEN {<<>>}
  ELSE LET shorter == SeqsUpTo(S, n - 1)
       IN  shorter \cup {Append(q, x) : q \in shorter, x \in S}

NoRoot == [null |-> TRUE, prefix |-> NULL]

\* What clib_package_load_local_manifest can return.
RootPackages ==
  { NoRoot, [null |-> FALSE, prefix |-> NULL],
    [null |-> FALSE, prefix |-> "/opt"] }

\* The manifest files a run of the installer starts with.
InitialDisks ==
  { [n \in ManifestNames |-> NoManifest],
    [n \in ManifestNames |->
       IF n = manifest_names[1] THEN ReadOnly(ManifestX) ELSE ManifestPY] }

\* The state main starts the installs from, for the command line argv0 with
\* the options opts0 and the manifest files disk0.
Start(argv0, opts0, disk0) ==
  /\ argv = argv0
  /\ opts = opts0
  /\ disk = disk0
  /\ root_package = NoRoot
  /\ pc = "main"
  /\ i = 0
  /\ path = "none"
  /\ cont = "none"
  /\ stack = <<>>
  /\ rc = 0
  /\ code = 0
  /\ visited = {}
  /\ cache = {}
  /\ env_PREFIX = NULL
  /\ package_opts_prefix = NULL
  /\ pkg = NoId
  /\ log = <<>>
  /\ last_write = NoWrite

Init ==
  \E argv0 \in SeqsUpTo(Slugs, MaxTargets), opts0 \in Options,
     disk0 \in InitialDisks : Start(argv0, opts0, disk0)

\* Every spelling of a target, with force, skip-cache and save-dev unset.
InitSlugs ==
  \E argv0 \in SeqsUpTo(AllSlugs, MaxTargets),
     opts0 \in {o \in Options : ~o.force /\ ~o.skip_cache /\ ~o.savedev},
     disk0 \in {d \in InitialDisks : d[manifest_names[2]].parses} :
    Start(argv0, opts0, disk0)

\* One entry of the log: what happened, to which package, during which
\* target (0: none), and in which call of the installer ("" outside it).
Event(e, id, x) ==
  [ev |-> e, id |-> id, i |-> i, x |-> x,
   ph |-> IF pc = "engine" THEN cont ELSE ""]

HasPrefix(root) == ~root.null /\ root.prefix # NULL

----------------------------------------------------------------------------
(* The package installer (clib-package-installer): clib_package_install,   *)
(* clib_package_install_dependencies, clib_package_install_development.    *)
(* Its code is not part of clib-install.c; it follows the install engine   *)
(* of the specification (visit before recursing, dependencies before the   *)
(* package's own files) and returns 0 on success and -1 on failure, the    *)
(* value install_local_packages tests for.                                 *)

\* The frame of clib_package_install(id).
PackageFrame(id) == [id |-> id, rest |-> <<>>, st |-> "enter", own |-> TRUE]

\* The frame of an install of a list of dependencies.
ListFrame(ids) == [id |-> NoId, rest |-> ids, st |-> "deps", own |-> FALSE]

Top == stack[Len(stack)]

\* id is being installed further down the recursion.
InProgress(id) ==
  \E k \in 1..(Len(stack) - 1) : stack[k].id = id /\ stack[k].st = "deps"

\* The visited-set short-circuit.
AlreadyInstalled(id) == id \in visited /\ (~opts.force \/ InProgress(id))

\* A manifest fetch goes to the network unless the cache holds a fresh entry.
FromNetwork(id) == opts.skip_cache \/ id \notin cache

\* The top frame returns 0 to its caller.
Pop(newlog) ==
  /\ stack' = SubSeq(stack, 1, Len(stack) - 1)
  /\ log' = newlog
  /\ IF Len(stack) = 1
     THEN pc' = cont /\ rc' = 0
     ELSE UNCHANGED <<pc, rc>>

\* A failure collapses to one failure signal at the installer's caller.
Unwind(newlog) ==
  /\ stack' = <<>>
  /\ log' = newlog
  /\ pc' = cont
  /\ rc' = -1

EngineVisit ==
  /\ pc = "engine" /\ Top.st = "enter"
  /\ IF AlreadyInstalled(Top.id)
     THEN /\ Pop(Append(log, Event("already", Top.id, "")))
          /\ UNCHANGED visited
     ELSE /\ visited' = visited \cup {Top.id}
          /\ stack' = [stack EXCEPT ![Len(stack)] =
                         [@ EXCEPT !.st = "deps", !.rest = Dependencies(Top.id)]]
          /\ UNCHANGED <<pc, rc, log>>
  /\ UNCHANGED <<argv, opts, root_package, i, path, cont, code, cache, disk,
                 env_PREFIX, package_opts_prefix, pkg, last_write>>

EngineDependency ==
  /\ pc = "engine" /\ Top.st = "deps" /\ Top.rest # <<>>
  /\ LET d == Head(Top.rest)
         net == IF FromNetwork(d) THEN "network" ELSE "cache"
     IN  IF ~registry_manager_find_package(d)
         THEN /\ Unwind(Append(log, Event("notfound", d, "")))
              /\ UNCHANGED cache
         ELSE \E ok \in {TRUE} \cup {b \in {FALSE} : FromNetwork(d)} :
                IF ok
                THEN /\ cache' = cache \cup {d}
                     /\ log' = Append(log, Event("dep_descriptor", d, net))
                     /\ stack' = Append(
                          [stack EXCEPT ![Len(stack)] =
                             [@ EXCEPT !.rest = Tail(Top.rest)]],
                          PackageFrame(d))
                     /\ UNCHANGED <<pc, rc>>
                ELSE /\ Unwind(Append(log, Event("fetchfailed", d, net)))
                     /\ UNCHANGED cache
  /\ UNCHANGED <<argv, opts, root_package, i, path, cont, code, visited, disk,
                 env_PREFIX, package_opts_prefix, pkg, last_write>>

EngineOwn ==
  /\ pc = "engine" /\ Top.st = "deps" /\ Top.rest = <<>> /\ Top.own
  /\ \E ok \in BOOLEAN :
       IF ok
       THEN Pop(log \o <<Event("fetch", Top.id, ""), Event("files", Top.id, "")>>)
       ELSE Unwind(Append(log, Event("installfailed", Top.id, "")))
  /\ UNCHANGED <<argv, opts, root_package, i, path, cont, code, visited, cache,
                 disk, env_PREFIX, package_opts_prefix, pkg, last_write>>

EngineListDone ==
  /\ pc = "engine" /\ Top.st = "deps" /\ Top.rest = <<>> /\ ~Top.own
  /\ Pop(log)
  /\ UNCHANGED <<argv, opts, root_package, i, path, cont, code, visited, cache,
                 disk, env_PREFIX, package_opts_prefix, pkg, last_write>>

----------------------------------------------------------------------------
(* clib-install.c *)

\* setenv("PREFIX", root_package->prefix, 1) under the guard of line 130.
SetenvPrefix(root, cur) == IF HasPrefix(root) THEN root.prefix ELSE cur

\* package_opts.prefix = root_package->prefix under the guard of line 259.
\* Mutant: the assignment is left out.
PackageOptsPrefix_skip(root, cur) == cur

PackageOptsPrefix(root, cur) == IF HasPrefix(root) THEN root.prefix ELSE cur

\* The test of install_package on the installer's result: 0 != rc.
\* Mutant: a failed install is not noticed.
InstallFailed_never(r) == FALSE

InstallFailed(r) == 0 # r

\* What install_package returns after the save calls: rc, never their result.
\* Mutant: rc = save_dependency(pkg), a failed save fails the target.
ReturnAfterSave_propagate(r, saved) == IF saved # 0 THEN -1 ELSE r

ReturnAfterSave(r, saved) == r

\* The test of install_packages on install_package's result.
\* Mutant: the loop goes on to the next target after a failure.
InstallPackageFailed_never(r) == FALSE

InstallPackageFailed(r) == -1 = r

\* main, up to the call of install_local_packages or install_packages.
Main ==
  /\ pc = "main"
  /\ root_package' \in RootPackages
  /\ IF 0 = Len(argv)
     THEN pc' = "install_local_packages" /\ path' = "top" /\ i' = 0
     ELSE pc' = "install_packages" /\ path' = "none" /\ i' = 1
  /\ UNCHANGED <<argv, opts, cont, stack, rc, code, visited, cache, disk,
                 env_PREFIX, package_opts_prefix, pkg, log, last_write>>

\* The head of the loop of install_packages.
InstallPackages ==
  /\ pc = "install_packages"
  /\ IF i <= Len(argv)
     THEN /\ pc' = "install_package"
          /\ log' = Append(log, Event("attempt", NoId, ""))
          /\ UNCHANGED code
     ELSE /\ pc' = "exit"
          /\ code' = 0
          /\ UNCHANGED log
  /\ UNCHANGED <<argv, opts, root_package, i, path, cont, stack, rc, visited,
                 cache, disk, env_PREFIX, package_opts_prefix, pkg, last_write>>

\* install_package, the tests for a local path.
InstallPackage ==
  /\ pc = "install_package"
  /\ IF IsLocalPath(argv[i])
     THEN pc' = "install_local_packages" /\ path' = "local"
     ELSE pc' = "find_package" /\ path' = "registry"
  /\ UNCHANGED <<argv, opts, root_package, i, cont, stack, rc, code, visited,
                 cache, disk, env_PREFIX, package_opts_prefix, pkg, log,
                 last_write>>

\* install_local_packages returns r to main or to install_package's caller.
LocalReturn(r, newlog) ==
  /\ log' = newlog
  /\ IF path = "top"
     THEN pc' = "exit" /\ code' = r /\ UNCHANGED rc
     ELSE pc' = "returned" /\ rc' = r /\ UNCHANGED code

\* install_local_packages, up to the call of the dependency install. The
\* installer is taken to reject a NULL root package with -1.
InstallLocalPackages ==
  /\ pc = "install_local_packages"
  /\ env_PREFIX' = SetenvPrefix(root_package, env_PREFIX)
  /\ log' = Append(log, Event("local", NoId, ""))
  /\ IF root_package.null
     THEN /\ pc' = "local_dependencies" /\ rc' = -1
          /\ UNCHANGED <<stack, cont>>
     ELSE /\ pc' = "engine" /\ cont' = "local_dependencies"
          /\ stack' = <<ListFrame(RootDependencies)>>
          /\ UNCHANGED rc
  /\ UNCHANGED <<argv, opts, root_package, i, path, code, visited, cache, disk,
                 package_opts_prefix, pkg, last_write>>

\* install_local_packages after clib_package_install_dependencies.
LocalDependencies ==
  /\ pc = "local_dependencies"
  /\ IF -1 = rc
     THEN /\ LocalReturn(1, Append(log, Event("fail", NoId, "dependencies")))
          /\ UNCHANGED <<stack, cont>>
     ELSE IF opts.dev
          THEN /\ pc' = "engine" /\ cont' = "local_development"
               /\ stack' = <<ListFrame(RootDevelopment)>>
               /\ UNCHANGED <<rc, code, log>>
          ELSE /\ LocalReturn(0, log)
               /\ UNCHANGED <<stack, cont>>
  /\ UNCHANGED <<argv, opts, root_package, i, path, visited, cache, disk,
                 env_PREFIX, package_opts_prefix, pkg, last_write>>

\* install_local_packages after clib_package_install_development.
LocalDevelopment ==
  /\ pc = "local_development"
  /\ IF -1 = rc
     THEN LocalReturn(1, Append(log, Event("fail", NoId, "development")))
     ELSE LocalReturn(0, log)
  /\ UNCHANGED <<argv, opts, root_package, i, path, cont, stack, visited,
                 cache, disk, env_PREFIX, package_opts_prefix, pkg, last_write>>

\* install_package, the registry lookup.
FindPackage ==
  /\ pc = "find_package"
  /\ LET package_id == PackageId(argv[i])
     IN  IF registry_manager_find_package(package_id)
         THEN /\ pc' = "new_package"
              /\ pkg' = package_id
              /\ log' = Append(log, Event("lookup", package_id, "found"))
              /\ UNCHANGED rc
         ELSE /\ pc' = "returned"
              /\ rc' = -1
              /\ log' = log \o <<Event("lookup", package_id, "notfound"),
                                 Event("fail", package_id, "resolution")>>
              /\ UNCHANGED pkg
  /\ UNCHANGED <<argv, opts, root_package, i, path, cont, stack, code, visited,
                 cache, disk, env_PREFIX, package_opts_prefix, last_write>>

\* install_package, from clib_package_new_from_slug_and_url to the call of
\* clib_package_install.
NewPackage ==
  /\ pc = "new_package"
  /\ LET net == IF FromNetwork(pkg) THEN "network" ELSE "cache"
     IN  \E ok \in {TRUE} \cup {b \in {FALSE} : FromNetwork(pkg)} :
           IF ok
           THEN /\ cache' = cache \cup {pkg}
                /\ log' = Append(log, Event("descriptor", pkg, net))
                /\ package_opts_prefix' =
                     PackageOptsPrefix(root_package, package_opts_prefix)
                /\ pc' = "engine" /\ cont' = "installed"
                /\ stack' = <<PackageFrame(pkg)>>
                /\ UNCHANGED rc
           ELSE /\ pc' = "returned"
                /\ rc' = -1
                /\ log' = log \o <<Event("descriptor", pkg, "failed"),
                                   Event("fail", pkg, "descriptor")>>
                /\ UNCHANGED <<cache, package_opts_prefix, cont, stack>>
  /\ UNCHANGED <<argv, opts, root_package, i, path, code, visited, disk,
                 env_PREFIX, pkg, last_write>>

\* install_package after clib_package_install.
Installed ==
  /\ pc = "installed"
  /\ IF InstallFailed(rc)
     THEN /\ pc' = "returned"
          /\ log' = Append(log, Event("fail", pkg, "install"))
          /\ UNCHANGED <<stack, cont>>
     ELSE IF opts.dev
          THEN /\ pc' = "engine" /\ cont' = "development_installed"
               /\ stack' = <<ListFrame(DevelopmentDependencies(pkg))>>
               /\ UNCHANGED log
          ELSE /\ pc' = "save_dependency"
               /\ UNCHANGED <<stack, cont, log>>
  /\ UNCHANGED <<argv, opts, root_package, i, path, rc, code, visited, cache,
                 disk, env_PREFIX, package_opts_prefix, pkg, last_write>>

\* install_package after clib_package_install_development.
DevelopmentInstalled ==
  /\ pc = "development_installed"
  /\ IF InstallFailed(rc)
     THEN /\ pc' = "returned"
          /\ log' = Append(log, Event("fail", pkg, "development"))
     ELSE /\ pc' = "save_dependency"
          /\ UNCHANGED log
  /\ UNCHANGED <<argv, opts, root_package, i, path, cont, stack, rc, code,
                 visited, cache, disk, env_PREFIX, package_opts_prefix, pkg,
                 last_write>>

\* The effect of one save call of install_package, w its record.
Save(w) ==
  /\ disk' = w.after
  /\ last_write' = w
  /\ rc' = ReturnAfterSave(rc, w.rc)
  /\ log' = Append(log, Event(IF w.rc = 0 THEN "save" ELSE "savefailed",
                              pkg, w.prefix))

\* if (opts.save) save_dependency(pkg);
SaveDependency ==
  /\ pc = "save_dependency"
  /\ pc' = "save_dev_dependency"
  /\ IF opts.save
     THEN Save(save_dependency(disk, Package(pkg)))
     ELSE UNCHANGED <<disk, last_write, rc, log>>
  /\ UNCHANGED <<argv, opts, root_package, i, path, cont, stack, code, visited,
                 cache, env_PREFIX, package_opts_prefix, pkg>>

\* if (opts.savedev) save_dev_dependency(pkg); and the return.
SaveDevDependency ==
  /\ pc = "save_dev_dependency"
  /\ pc' = "returned"
  /\ IF opts.savedev
     THEN Save(save_dev_dependency(disk, Package(pkg)))
     ELSE UNCHANGED <<disk, last_write, rc, log>>
  /\ UNCHANGED <<argv, opts, root_package, i, path, cont, stack, code, visited,
                 cache, env_PREFIX, package_opts_prefix, pkg>>

\* install_packages after install_package has returned rc.
Returned ==
  /\ pc = "returned"
  /\ IF InstallPackageFailed(rc)
     THEN /\ pc' = "exit"
          /\ code' = 1
          /\ log' = Append(log, Event("error", NoId, ""))
          /\ UNCHANGED i
     ELSE /\ pc' = "install_packages"
          /\ i' = i + 1
          /\ UNCHANGED <<code, log>>
  /\ UNCHANGED <<argv, opts, root_package, path, cont, stack, rc, visited,
                 cache, disk, env_PREFIX, package_opts_prefix, pkg, last_write>>

Next ==
  \/ Main
  \/ InstallPackages
  \/ InstallPackage
  \/ InstallLocalPackages
  \/ LocalDependencies
  \/ LocalDevelopment
  \/ FindPackage
  \/ NewPackage
  \/ Installed
  \/ DevelopmentInstalled
  \/ SaveDependency
  \/ SaveDevDependency
  \/ Returned
  \/ EngineVisit
  \/ EngineDependency
  \/ EngineOwn
  \/ EngineListDone

Spec == Init /\ [][Next]_vars

SpecSlugs == InitSlugs /\ [][Next]_vars

----------------------------------------------------------------------------
(* The manifest writer on its own: any manifest files, any package *)

InitWriter ==
  \E disk0 \in [ManifestNames -> ManifestFiles] :
    /\ Start(<<>>, [dev |-> FALSE, save |-> TRUE, savedev |-> TRUE,
                    force |-> FALSE, skip_cache |-> FALSE], disk0)
    /\ pc = "main"

\* save_dependency(pkg) for an installed package.
RecordDependency ==
  /\ \E id \in {P, Q} :
       LET w == save_dependency(disk, Package(id))
       IN  disk' = w.after /\ last_write' = w /\ pkg' = id
  /\ UNCHANGED <<argv, opts, root_package, pc, i, path, cont, stack, rc, code,
                 visited, cache, env_PREFIX, package_opts_prefix, log>>

\* save_dev_dependency(pkg) for an installed package.
RecordDevelopment ==
  /\ \E id \in {P, Q} :
       LET w == save_dev_dependency(disk, Package(id))
       IN  disk' = w.after /\ last_write' = w /\ pkg' = id
  /\ UNCHANGED <<argv, opts, root_package, pc, i, path, cont, stack, rc, code,
                 visited, cache, env_PREFIX, package_opts_prefix, log>>

NextWriter == RecordDependency \/ RecordDevelopment

SpecWriter == InitWriter /\ [][NextWriter]_vars

----------------------------------------------------------------------------
(* The claims *)

LogIdx == 1..Len(log)

\* The identifier of the j-th explicit target.
Target(j) == PackageId(argv[j])

\* A local-path target: "." or "./" exactly, or an existing regular file or
\* symlink.
LocalPathTarget(slug) ==
  \/ slug = <<".">>
  \/ slug = <<".", "/">>
  \/ fs_stat(slug) \in {"S_IFREG", "S_IFLNK"}

\* The j-th target has had a failure of any kind.
TargetFailed(j) == \E k \in LogIdx : log[k].i = j /\ log[k].ev = "fail"

\* C1: the explicit targets are attempted strictly left to right; once a
\* target has failed, whatever the failure (a failed dependency install of a
\* local-path target included), no later target is attempted, and when the
\* run has ended the failing target has been reported.
C1_FailFast ==
  /\ \A a, b \in LogIdx :
       (a < b /\ log[a].ev = "attempt" /\ log[b].ev = "attempt")
         => log[a].i < log[b].i
  /\ \A j \in 1..Len(argv) :
       TargetFailed(j) =>
         /\ \A k \in LogIdx : log[k].i <= j
         /\ pc = "exit" =>
              \E k \in LogIdx : log[k].i = j /\ log[k].ev = "error"

\* C2: when the run has ended, the exit code is 0 exactly when no target
\* (and, with no targets, the root project's own dependency install) had a
\* failure, and is 1 otherwise.
C2_ExitCode ==
  pc = "exit" =>
    /\ code \in {0, 1}
    /\ code = 0 <=> ~\E k \in LogIdx : log[k].ev = "fail"

\* The own file-install step of the j-th target's package, in
\* clib_package_install.
OwnInstall(k, j) ==
  /\ log[k].ev = "files" /\ log[k].i = j
  /\ log[k].ph = "installed" /\ log[k].id = Target(j)

\* clib_package_install found the j-th target's package AlreadyInstalled.
OwnAlready(k, j) ==
  /\ log[k].ev = "already" /\ log[k].i = j
  /\ log[k].ph = "installed" /\ log[k].id = Target(j)

\* C3 as claimed: for an explicit registry target, no dependency, regular
\* or development, is installed after the package's own file-install step
\* has run.
C3_NoDependencyAfterOwnInstall ==
  \A b \in LogIdx :
    (log[b].ev = "files" /\ log[b].i >= 1)
      => ~\E a \in 1..(b - 1) : OwnInstall(a, log[b].i)

\* C3 as amended: for an explicit registry target, the package's own
\* file-install step is the last step of clib_package_install, after every
\* install of its regular dependencies; its development dependencies are
\* installed only when dev is set and only after clib_package_install has
\* succeeded for the package, that is after its own install step has run or
\* after it was found AlreadyInstalled.
C3_DependenciesThenOwnThenDevelopment ==
  LET own == {a \in LogIdx : OwnInstall(a, log[a].i)}
      done == own \cup {a \in LogIdx : OwnAlready(a, log[a].i)}
  IN  \A b \in LogIdx :
        /\ log[b].ph = "installed"
             => \A a \in own : log[a].i = log[b].i => b <= a
        /\ (log[b].ph = "development_installed" /\ log[b].ev = "files")
             => /\ opts.dev
                /\ \E a \in done : log[a].i = log[b].i /\ a < b

\* C3, its case: the dependency q, then p itself, then p's development
\* dependency t.
C3_Witness ==
  \E a, b, c \in LogIdx :
    /\ a < b /\ b < c
    /\ log[a].ev = "files" /\ log[a].id = Q /\ log[a].ph = "installed"
    /\ OwnInstall(b, 1) /\ log[b].id = P
    /\ log[c].ev = "files" /\ log[c].id = T /\ log[c].i = 1
    /\ log[c].ph = "development_installed"

\* j is a second occurrence of an identifier among the explicit targets.
SecondOccurrence(j) ==
  /\ j \in 1..Len(argv)
  /\ ~LocalPathTarget(argv[j])
  /\ \E h \in 1..(j - 1) :
       ~LocalPathTarget(argv[h]) /\ Target(h) = Target(j)

\* C4 as claimed: without force, the second occurrence of an identifier
\* performs no fetch, neither of the descriptor nor of the content, and no
\* file overwrite.
C4_SecondOccurrenceNoFetch ==
  ~opts.force =>
    \A j \in 2..Len(argv) :
      SecondOccurrence(j) =>
        \A k \in LogIdx :
          log[k].i = j =>
            log[k].ev \notin {"descriptor", "dep_descriptor", "fetch", "files"}

\* C4 as amended: without force, the second occurrence of an identifier is
\* looked up and its descriptor is built again (from the cache, or from the
\* network when skip-cache is set, where the fetch can fail the target);
\* once the descriptor is built the package is AlreadyInstalled: there is no
\* fetch of package content and no file overwrite, and the target fails only
\* when a manifest fetch under skip-cache fails.
C4_SecondOccurrenceAlreadyInstalled ==
  ~opts.force =>
    \A j \in 2..Len(argv) :
      SecondOccurrence(j) =>
        \A k \in LogIdx :
          log[k].i = j =>
            /\ log[k].ev \notin {"fetch", "files", "installfailed", "notfound"}
            /\ log[k].ev = "fail" => opts.skip_cache
            /\ log[k].ev \in {"descriptor", "dep_descriptor"}
                 => (log[k].x = "cache" <=> ~opts.skip_cache)
            /\ (log[k].ev = "descriptor" /\ log[k].x # "failed"
                                         /\ k < Len(log))
                 => /\ log[k + 1].ev = "already"
                    /\ log[k + 1].id = Target(j)

\* C4, its case: p twice, the second found AlreadyInstalled after its
\* descriptor was built again.
C4_Witness ==
  /\ ~opts.force
  /\ argv = << <<"p">>, <<"p">> >>
  /\ \E k \in LogIdx :
       /\ k < Len(log)
       /\ log[k].i = 2 /\ log[k].ev = "descriptor" /\ log[k].id = P
       /\ log[k + 1].ev = "already" /\ log[k + 1].id = P
  /\ pc = "exit" /\ code = 0

\* C5: a local-path target causes no registry lookup and no descriptor is
\* built for it from a registry reference; once install_package has acted on
\* it, it has gone through install_local_packages, on success and on failure.
C5_LocalPathNoLookup ==
  \A j \in 1..Len(argv) :
    LocalPathTarget(argv[j]) =>
      /\ \A k \in LogIdx :
           log[k].i = j => log[k].ev \notin {"lookup", "descriptor"}
      /\ (i > j \/ (i = j /\ pc \in {"returned", "exit"}))
           => \E k \in LogIdx : log[k].i = j /\ log[k].ev = "local"

\* C5, its case: a symlink target whose dependency install failed, after a
\* regular-file target that succeeded.
C5_Witness ==
  /\ argv = << <<".", "f">>, <<"l">> >>
  /\ pc = "returned" /\ i = 2 /\ rc = 1
  /\ TargetFailed(2)

\* The manifest section other than s.
OtherSection(s) == IF s = "dependencies" THEN "development" ELSE "dependencies"

\* C6: a successful record into one section leaves that section present,
\* holding the package's entry with its resolved version and every other
\* entry it had before and no more; the other section and the rest of the
\* manifest are as before. Recording p at 2.0.0 into {dependencies: {x:
\* 1.0.0}} gives {dependencies: {x: 1.0.0, p: 2.0.0}} and no development
\* section.
C6_RecordFrame ==
  (last_write.prefix # "" /\ last_write.rc = 0) =>
    LET w == last_write
        n == manifest_names[Len(w.rcs)]
        b == w.before[n]
        a == w.after[n]
        s == w.prefix
        o == OtherSection(w.prefix)
    IN  /\ a[s].present
        /\ <<w.p.repo, w.p.version>> \in a[s].entries
        /\ \A e \in a[s].entries :
             IF e[1] = w.p.repo THEN e[2] = w.p.version
             ELSE b[s].present /\ e \in b[s].entries
        /\ \A e \in b[s].entries : e[1] # w.p.repo => e \in a[s].entries
        /\ a[o] = b[o]
        /\ a.other = b.other
        /\ (b = ManifestX /\ s = "dependencies" /\ w.p.repo = P) =>
             /\ a.dependencies.entries = {<<X, "1.0.0">>, <<P, "2.0.0">>}
             /\ ~a.development.present

\* C6, its case: p recorded into the dependencies of {dependencies: {x:
\* 1.0.0}}.
C6_Witness ==
  /\ last_write.prefix = "dependencies" /\ last_write.rc = 0
  /\ last_write.p.repo = P
  /\ last_write.rcs = <<0>>
  /\ last_write.before[manifest_names[1]] = ManifestX
  /\ disk[manifest_names[1]] # ManifestX

\* Every candidate manifest failed to be written.
SaveFailed(k) == log[k].ev = "savefailed"

\* C7: a save that fails for every candidate leaves the target's result a
\* success: the target has no failure and is not reported, install_package
\* returns 0, the next target is attempted, the exit code is 0 when no
\* target had a failure, and the package stays installed.
C7_SaveFailureNonFatal ==
  \A k \in LogIdx :
    SaveFailed(k) =>
      LET j == log[k].i
      IN  /\ ~TargetFailed(j)
          /\ ~\E m \in LogIdx : log[m].i = j /\ log[m].ev = "error"
          /\ (i = j /\ pc \in {"save_dev_dependency", "returned"}) => rc = 0
          /\ (pc = "exit" /\ j < Len(argv))
               => \E m \in LogIdx : log[m].i = j + 1 /\ log[m].ev = "attempt"
          /\ (pc = "exit" /\ ~\E m \in LogIdx : log[m].ev = "fail")
               => code = 0
          /\ log[k].id \in visited

\* C7, its case: the save of the first target failed, the second target
\* was installed, and the run ended with exit code 0.
C7_Witness ==
  /\ pc = "exit" /\ code = 0 /\ Len(argv) = 2
  /\ \E k \in LogIdx : SaveFailed(k) /\ log[k].i = 1
  /\ \E m \in LogIdx : log[m].i = 2 /\ log[m].ev = "local"

\* The manifest writer was called.
SaveCall(k) == log[k].ev = "save" \/ log[k].ev = "savefailed"

\* C8: the manifest writer is called only for an explicit registry target,
\* with that target's own identifier, into a section whose option is set,
\* after the target was found, its descriptor built, clib_package_install
\* succeeded and, with dev, its development dependencies were installed;
\* a target with any failure is never recorded, and without a record the
\* manifest files are as they were.
C8_SaveOnlyAfterSuccess ==
  /\ \A k \in LogIdx :
       SaveCall(k) =>
         LET j == log[k].i
             dev == DevelopmentDependencies(Target(j))
             before == {a \in 1..(k - 1) : log[a].i = j}
         IN  /\ j \in 1..Len(argv)
             /\ ~LocalPathTarget(argv[j])
             /\ log[k].id = Target(j)
             /\ log[k].x = "dependencies" => opts.save
             /\ log[k].x = "development" => opts.savedev
             /\ \E a \in before : log[a].ev = "lookup" /\ log[a].x = "found"
             /\ \E a \in before :
                  log[a].ev = "descriptor" /\ log[a].x # "failed"
             /\ \E a \in before : OwnInstall(a, j) \/ OwnAlready(a, j)
             /\ opts.dev =>
                  \A d \in 1..Len(dev) : \E a \in before :
                    /\ log[a].id = dev[d]
                    /\ log[a].ph = "development_installed"
                    /\ log[a].ev \in {"files", "already"}
             /\ \A a \in before :
                  log[a].ev \notin {"fail", "notfound", "fetchfailed",
                                    "installfailed"}
             /\ \A a \in (k + 1)..Len(log) :
                  log[a].i = j => log[a].ev # "fail"
  /\ last_write = NoWrite => disk \in InitialDisks

\* C8, its case: with dev set, a package recorded in the development
\* section after its development dependency was installed.
C8_Witness ==
  /\ opts.dev
  /\ \E k \in LogIdx :
       /\ log[k].ev = "save" /\ log[k].x = "development"
       /\ \E a \in 1..(k - 1) :
            log[a].ev = "files" /\ log[a].ph = "development_installed"

\* C9 as claimed: when the root project declares a prefix, PREFIX is
\* exported from it before any install step, on every install path.
C9_PrefixExportedEverywhere ==
  (pc = "engine" /\ HasPrefix(root_package))
    => env_PREFIX = root_package.prefix

\* C9 as amended: when the root project declares a prefix, on the
\* no-argument and local-path path install_local_packages exports it as
\* PREFIX before any install step; on the registry-target path
\* install_package does not export PREFIX, it stores the prefix in
\* package_opts.prefix before clib_package_install and
\* clib_package_install_development run. PREFIX is set by
\* install_local_packages alone.
C9_PrefixPerPath ==
  /\ (pc = "engine" /\ HasPrefix(root_package)) =>
       /\ cont \in {"local_dependencies", "local_development"}
            => env_PREFIX = root_package.prefix
       /\ cont \in {"installed", "development_installed"}
            => package_opts_prefix = root_package.prefix
  /\ env_PREFIX # NULL =>
       /\ env_PREFIX = root_package.prefix
       /\ \E k \in LogIdx : log[k].ev = "local"

\* C9, its case: the development dependencies of a registry target being
\* installed with the prefix in package_opts.prefix and PREFIX not set.
C9_Witness ==
  /\ pc = "engine" /\ cont = "development_installed"
  /\ HasPrefix(root_package)
  /\ package_opts_prefix = root_package.prefix
  /\ env_PREFIX = NULL

\* Candidate k cannot be recorded into: it does not parse or cannot be
\* written.
CandidateFails(w, k) ==
  ~w.before[manifest_names[k]].parses \/ ~w.before[manifest_names[k]].writable

\* C10: write_dependency tries the candidates in order and stops at the
\* first that succeeds: every candidate before the last one tried failed and
\* is unchanged, no candidate after it is touched, at most one file is
\* changed, and the call fails exactly when every candidate fails.
C10_FirstSuccessWins ==
  last_write.prefix # "" =>
    LET w == last_write
        n == Len(w.rcs)
        last == Len(manifest_names)
    IN  /\ n \in 1..last
        /\ \A k \in 1..(n - 1) :
             /\ w.rcs[k] # 0 /\ CandidateFails(w, k)
             /\ w.after[manifest_names[k]] = w.before[manifest_names[k]]
        /\ n < last => w.rcs[n] = 0
        /\ w.rcs[n] = 0 <=> ~CandidateFails(w, n)
        /\ \A k \in (n + 1)..last :
             w.after[manifest_names[k]] = w.before[manifest_names[k]]
        /\ Cardinality({m \in ManifestNames : w.after[m] # w.before[m]}) <= 1
        /\ w.rc = w.rcs[n]
        /\ w.rc # 0 <=> \A k \in 1..last : CandidateFails(w, k)

\* C10, its case: the first candidate failed and the second was written.
C10_Witness ==
  /\ last_write.prefix # ""
  /\ Len(last_write.rcs) = 2
  /\ last_write.rcs[1] # 0 /\ last_write.rcs[2] = 0
  /\ last_write.after[manifest_names[2]] # last_write.before[manifest_names[2]]
  /\ last_write.after[manifest_names[1]] = last_write.before[manifest_names[1]]

====
